---- MODULE Spec2Model ----
(***************************************************************************)
(* Model of the two prober scripts of the repository:                      *)
(*   verify_models.py : verify_model_usage()   (config-driven SDK probe)   *)
(*   panggil_model.py : panggil_model_vertex() (raw HTTP probe)            *)
(* A behaviour is one run of one of the two functions.  The environment    *)
(* (file system, YAML document, identity provider, remote service) is a    *)
(* nondeterministic choice; the control flow, the except clauses and the   *)
(* printed lines are those of the source.  print() itself is assumed not   *)
(* to fail, and only exceptions derived from Exception are modelled.       *)
(***************************************************************************)
EXTENDS Integers, Sequences, FiniteSets, TLC

VARIABLES prog, pc, fs, idp, config, idx, endpoint_id, token, request,
          v_response, p_response, out, caught, raised, inits, sent

vars == <<prog, pc, fs, idp, config, idx, endpoint_id, token, request,
          v_response, p_response, out, caught, raised, inits, sent>>

(* ------------------------------ bounds --------------------------------- *)
MaxEntries == 2          \* entries in a models.yaml mapping

(* --------------------------- printed lines ----------------------------- *)
Line(tag, a, b) == [tag |-> tag, a |-> a, b |-> b]

Tags(o) == {o[i].tag : i \in 1..Len(o)}

Count(o, tag) == Cardinality({i \in 1..Len(o) : o[i].tag = tag})

(* ----------------------------- exceptions ------------------------------ *)
Exc(type, msg) == [type |-> type, msg |-> msg]

NoExc == Exc("none", "")

\* Python / library class hierarchy of the exception types that occur.
Bases(type) ==
  CASE type \in {"FileNotFoundError", "NotADirectoryError",
                 "IsADirectoryError", "PermissionError"}
                                        -> {"OSError", "Exception"}
    [] type = "KeyError"                -> {"LookupError", "Exception"}
    [] type \in {"DefaultCredentialsError", "RefreshError", "TransportError"}
                                        -> {"GoogleAuthError", "Exception"}
    [] type \in {"HTTPError", "ConnectionError"}
                                        -> {"RequestException", "OSError", "Exception"}
    [] type = "JSONDecodeError"         -> {"InvalidJSONError", "RequestException",
                                            "ValueError", "OSError", "Exception"}
    [] OTHER                            -> {"Exception"}

IsInstance(e, cls) == e.type = cls \/ cls \in Bases(e.type)

Uncaught == "<uncaught>"

\* The class of the first except clause that catches e, Uncaught when
\* none does.
RECURSIVE MatchFrom(_, _, _)
MatchFrom(clauses, e, i) ==
  IF i > Len(clauses) THEN Uncaught
  ELSE IF IsInstance(e, clauses[i]) THEN clauses[i]
  ELSE MatchFrom(clauses, e, i + 1)

MatchClause(clauses, e) == MatchFrom(clauses, e, 1)

(* Control transfer: the four variables every step decides. *)
\* the step completes and the function goes on at `next`
Continue(lines, next) ==
  /\ pc' = next
  /\ out' = out \o lines
  /\ UNCHANGED <<caught, raised>>

\* an except clause catches e; its handler prints `lines`
Handle(e, lines, next) ==
  /\ pc' = next
  /\ out' = out \o lines
  /\ caught' = e
  /\ raised' = raised

\* no except clause applies: e leaves the function
Propagate(e, lines) ==
  /\ pc' = "done"
  /\ out' = out \o lines
  /\ raised' = e
  /\ caught' = caught

(* ------------------------- verify_models.py ---------------------------- *)
config_path == "src/vtx_cli/configs/models.yaml"
project_id  == "protean-tooling-476420-i8"
location    == "us-central1"
model_to_test == "gemini-pro"
prompt == "Explain what a Large Language Model is in one simple sentence."

Aliases == {"gemini-pro", "claude-sonnet", "llama-3"}

Absent == "<absent>"

\* Values an entry of the mapping can have: a mapping with or without the
\* two fields, or something that is not a mapping (a string, null).
DetailValues ==
  { [kind |-> "map", name |-> "Display Name", endpoint_id |-> "endpoint-001"],
    [kind |-> "map", name |-> "Display Name", endpoint_id |-> Absent],
    [kind |-> "map", name |-> Absent,         endpoint_id |-> "endpoint-001"],
    [kind |-> "str",  name |-> Absent, endpoint_id |-> Absent],
    [kind |-> "null", name |-> Absent, endpoint_id |-> Absent] }

Entry(alias, details) == [alias |-> alias, details |-> details]

EntrySeqs ==
  { s \in UNION { [1..n -> {Entry(a, d) : a \in Aliases, d \in DetailValues}]
                  : n \in 1..MaxEntries } :
      \A i, j \in 1..Len(s) : i # j => s[i].alias # s[j].alias }

\* What yaml.safe_load can return for a document, or the parse error.
Doc(kind, truthy, entries) == [kind |-> kind, truthy |-> truthy, entries |-> entries]

NoConfig == Doc("unset", FALSE, <<>>)

Documents ==
  { Doc("syntaxerror", FALSE, <<>>),       \* not valid YAML
    Doc("null", FALSE, <<>>),              \* empty file / null
    Doc("map", FALSE, <<>>),               \* {}
    Doc("list", FALSE, <<>>),              \* []
    Doc("list", TRUE, <<>>),               \* non-empty list
    Doc("scalar", FALSE, <<>>),            \* "", 0, false
    Doc("scalar", TRUE, <<>>) }            \* a plain string or number
  \cup { Doc("map", TRUE, s) : s \in EntrySeqs }

\* State of config_path in the file system.
FileStates ==
  { [state |-> st, doc |-> NoConfig] :
      st \in {"missing", "notdir", "isdir", "denied"} }
  \cup { [state |-> "file", doc |-> d] : d \in Documents }

NoFile == [state |-> "unused", doc |-> NoConfig]

\* open(config_path, 'r')
OpenResult(f) ==
  CASE f.state = "file"    -> NoExc
    [] f.state = "missing" -> Exc("FileNotFoundError", "[Errno 2] No such file or directory")
    [] f.state = "notdir"  -> Exc("NotADirectoryError", "[Errno 20] Not a directory")
    [] f.state = "isdir"   -> Exc("IsADirectoryError", "[Errno 21] Is a directory")
    [] OTHER               -> Exc("PermissionError", "[Errno 13] Permission denied")

\* yaml.safe_load(f)
SafeLoadResult(doc) ==
  IF doc.kind = "syntaxerror"
  THEN Exc("YAMLError", "while parsing a block mapping")
  ELSE NoExc

\* variant: only None counts as empty
Falsy_NoneOnly(c) == c.kind = "null"

\* `not config`
Falsy(c) == ~c.truthy

Keys(c) == {c.entries[i].alias : i \in 1..Len(c.entries)}

\* variant: the membership test never reports absence
AliasAbsent_NeverAbsent(c) == FALSE

\* `model_to_test not in config`, config being a dict here
AliasAbsent(c) == model_to_test \notin Keys(c)

\* config[alias]: the entry's value, or KeyError
HasKey(c, alias) == alias \in Keys(c)

Lookup(c, alias) ==
  c.entries[CHOOSE i \in 1..Len(c.entries) : c.entries[i].alias = alias].details

\* details.get('name')
GetName(d) == IF d.name = Absent THEN "None" ELSE d.name

\* the except clauses of the two try statements
LoadExcepts == <<"FileNotFoundError", "Exception">>
LiveExcepts == <<"Exception">>

\* Lines printed by the handlers of the config-loading try (lines 28-33).
LoadHandlerLines(e) ==
  IF MatchClause(LoadExcepts, e) = "FileNotFoundError"
  THEN <<Line("config_not_found", config_path, "")>>
  ELSE <<Line("config_read_error", e.msg, "")>>

\* variant: the handler prints the exception's class, not its message
LiveHandlerLines_ClassName(e) ==
  <<Line("live_failed", e.type, ""), Line("live_hint", "", "")>>

\* Lines printed by the handler of the live-test try (lines 64-67).
LiveHandlerLines(e) ==
  <<Line("live_failed", e.msg, ""), Line("live_hint", "", "")>>

\* An exception raised inside the config-loading try: handled, then return.
LoadFails(e, printed) ==
  IF MatchClause(LoadExcepts, e) = Uncaught
  THEN Propagate(e, printed)
  ELSE Handle(e, printed \o LoadHandlerLines(e), "done")

\* An exception raised inside the live-test try: handled, function ends.
LiveFails(e, printed) ==
  IF MatchClause(LiveExcepts, e) = Uncaught
  THEN Propagate(e, printed)
  ELSE Handle(e, printed \o LiveHandlerLines(e), "done")

\* lines 14-16: print the banner, open the file
V_Open ==
  /\ prog = "verify" /\ pc = "v_open"
  /\ LET e == OpenResult(fs)
         printed == <<Line("loading", config_path, "")>>
     IN IF e = NoExc
        THEN Continue(printed, "v_parse")
        ELSE LoadFails(e, printed)
  /\ UNCHANGED <<prog, fs, idp, config, idx, endpoint_id, token, request,
                 v_response, p_response, inits, sent>>

\* line 17: config = yaml.safe_load(f)
V_Parse ==
  /\ prog = "verify" /\ pc = "v_parse"
  /\ LET e == SafeLoadResult(fs.doc)
     IN IF e = NoExc
        THEN /\ config' = fs.doc
             /\ Continue(<<>>, "v_check")
        ELSE /\ config' = config
             /\ LoadFails(e, <<>>)
  /\ UNCHANGED <<prog, fs, idp, idx, endpoint_id, token, request,
                 v_response, p_response, inits, sent>>

\* lines 19-23: the emptiness check and the listing header
V_CheckEmpty ==
  /\ prog = "verify" /\ pc = "v_check"
  /\ IF Falsy(config)
     THEN /\ Continue(<<Line("config_empty", "", "")>>, "done")
          /\ idx' = idx
     ELSE /\ Continue(<<Line("models_header", "", "")>>, "v_list")
          /\ idx' = 1
  /\ UNCHANGED <<prog, fs, idp, config, endpoint_id, token, request,
                 v_response, p_response, inits, sent>>

\* lines 24-26: one iteration of the listing loop, or its end
V_List ==
  /\ prog = "verify" /\ pc = "v_list"
  /\ IF config.kind # "map"
     THEN /\ LoadFails(Exc("AttributeError", "object has no attribute 'items'"), <<>>)
          /\ idx' = idx
     ELSE IF idx > Len(config.entries)
     THEN /\ Continue(<<Line("separator", "", "")>>, "v_alias")
          /\ idx' = idx
     ELSE LET en == config.entries[idx]
          IN IF en.details.kind # "map"
             THEN /\ LoadFails(Exc("AttributeError", "object has no attribute 'get'"), <<>>)
                  /\ idx' = idx
             ELSE /\ Continue(<<Line("model", en.alias, GetName(en.details))>>, "v_list")
                  /\ idx' = idx + 1
  /\ UNCHANGED <<prog, fs, idp, config, endpoint_id, token, request,
                 v_response, p_response, inits, sent>>

\* lines 36-39: the alias lookup
V_AliasLookup ==
  /\ prog = "verify" /\ pc = "v_alias"
  /\ IF AliasAbsent(config)
     THEN Continue(<<Line("skip", model_to_test, "")>>, "done")
     ELSE Continue(<<>>, "v_endpoint")
  /\ UNCHANGED <<prog, fs, idp, config, idx, endpoint_id, token, request,
                 v_response, p_response, inits, sent>>

\* lines 41-42: endpoint_id = config[model_to_test]['endpoint_id'],
\* outside every try statement
V_EndpointLookup ==
  /\ prog = "verify" /\ pc = "v_endpoint"
  /\ IF ~HasKey(config, model_to_test)
     THEN /\ Propagate(Exc("KeyError", "'gemini-pro'"), <<>>)
          /\ endpoint_id' = endpoint_id
     ELSE IF Lookup(config, model_to_test).endpoint_id = Absent
     THEN /\ Propagate(Exc("KeyError", "'endpoint_id'"), <<>>)
          /\ endpoint_id' = endpoint_id
     ELSE /\ endpoint_id' = Lookup(config, model_to_test).endpoint_id
          /\ Continue(<<Line("live_header", model_to_test,
                             Lookup(config, model_to_test).endpoint_id)>>, "v_init")
  /\ UNCHANGED <<prog, fs, idp, config, idx, token, request,
                 v_response, p_response, inits, sent>>

(* ---- the live test (lines 44-67) ---- *)
\* failures of vertexai.init(project=..., location=...)
InitErrors ==
  { Exc("DefaultCredentialsError", "Your default credentials were not found."),
    Exc("ValueError", "Unsupported region for Vertex AI") }

\* failures of GenerativeModel(endpoint_id)
ModelErrors == { Exc("ValueError", "Invalid model name") }

\* failures of model.generate_content(prompt)
GenerateErrors ==
  { Exc("PermissionDenied", "403 Permission denied on resource project"),
    Exc("NotFound", "404 Publisher Model was not found"),
    Exc("ServiceUnavailable", "503 failed to connect to all addresses") }

\* failure of the response.text property
TextError == Exc("ValueError", "Response has no candidates")

WS == {" ", "\n"}

RECURSIVE LStrip(_)
LStrip(t) == IF t # <<>> /\ Head(t) \in WS THEN LStrip(Tail(t)) ELSE t

RECURSIVE RStrip(_)
RStrip(t) ==
  IF t # <<>> /\ t[Len(t)] \in WS THEN RStrip(SubSeq(t, 1, Len(t) - 1)) ELSE t

\* str.strip()
Strip(t) == RStrip(LStrip(t))

VResp(kind, text) == [kind |-> kind, text |-> text]

NoVResponse == VResp("unset", <<>>)

\* what generate_content can return: a response with text, or one whose
\* text property raises (no candidates / blocked)
VResponses ==
  { VResp("blocked", <<>>),
    VResp("text", <<"A", " ", "B">>),
    VResp("text", <<" ", "A", "\n">>),
    VResp("text", <<"\n", " ", "A", " ", "B", " ">>),
    VResp("text", <<" ">>) }

Req(target, credential, text) ==
  [target |-> target, credential |-> credential, text |-> text]

NoRequest == Req("", "", "")

\* lines 45-47: vertexai.init
V_Init ==
  /\ prog = "verify" /\ pc = "v_init"
  /\ inits' = inits + 1
  /\ \E r \in {NoExc} \cup InitErrors :
       LET printed == <<Line("init_start", "", "")>>
       IN IF r = NoExc
          THEN Continue(printed \o <<Line("init_ok", "", "")>>, "v_model")
          ELSE LiveFails(r, printed)
  /\ UNCHANGED <<prog, fs, idp, config, idx, endpoint_id, token, request,
                 v_response, p_response, sent>>

\* lines 49-55: model = GenerativeModel(endpoint_id), then the prompt
V_Model ==
  /\ prog = "verify" /\ pc = "v_model"
  /\ \E r \in {NoExc} \cup ModelErrors :
       LET printed == <<Line("model_start", "", "")>>
       IN IF r = NoExc
          THEN /\ Continue(printed \o <<Line("model_ok", "", ""),
                                        Line("prompt", prompt, "")>>, "v_generate")
               /\ request' = Req(endpoint_id, "ambient", prompt)
          ELSE /\ LiveFails(r, printed)
               /\ request' = request
  /\ UNCHANGED <<prog, fs, idp, config, idx, endpoint_id, token,
                 v_response, p_response, inits, sent>>

\* line 57: response = model.generate_content(prompt)
V_Generate ==
  /\ prog = "verify" /\ pc = "v_generate"
  /\ sent' = sent + 1
  /\ \/ \E r \in VResponses :
          /\ v_response' = r
          /\ Continue(<<>>, "v_read")
     \/ \E e \in GenerateErrors :
          /\ LiveFails(e, <<>>)
          /\ v_response' = v_response
  /\ UNCHANGED <<prog, fs, idp, config, idx, endpoint_id, token, request,
                 p_response, inits>>

\* variant: the success line is printed before response.text is read
V_ReadText_SuccessFirst ==
  /\ prog = "verify" /\ pc = "v_read"
  /\ LET printed == <<Line("success", "", ""), Line("response_header", "", "")>>
     IN IF v_response.kind = "blocked"
        THEN Handle(TextError, printed \o LiveHandlerLines(TextError), "done")
        ELSE Continue(printed \o <<Line("response_text", Strip(v_response.text), "")>>,
                      "done")
  /\ UNCHANGED <<prog, fs, idp, config, idx, endpoint_id, token, request,
                 v_response, p_response, inits, sent>>

\* lines 59-62: print response.text.strip() and the success line
V_ReadText ==
  /\ prog = "verify" /\ pc = "v_read"
  /\ LET printed == <<Line("response_header", "", "")>>
     IN IF v_response.kind = "blocked"
        THEN LiveFails(TextError, printed)
        ELSE Continue(printed \o <<Line("response_text", Strip(v_response.text), ""),
                                   Line("separator", "", ""),
                                   Line("success", "", "")>>, "done")
  /\ UNCHANGED <<prog, fs, idp, config, idx, endpoint_id, token, request,
                 v_response, p_response, inits, sent>>

(* ------------------------- panggil_model.py ---------------------------- *)
PROJECT_ID == "protean-tooling-476420-i8"
REGION     == "us-south1"
MODEL_ID   == "gemini-1.0-pro"
PROMPT     == "What is the capital of Texas?"
url == "https://us-south1-aiplatform.googleapis.com/v1/projects/protean-tooling-476420-i8/locations/us-south1/endpoints/openapi/chat/completions"

\* variant: no clause for DefaultCredentialsError
VertexExcepts_NoCredentialClause == <<"HTTPError", "Exception">>

VertexExcepts == <<"DefaultCredentialsError", "HTTPError", "Exception">>

IdpStates == {"configured", "none", "expired"}

\* google.auth.default(scopes=[...])
AuthDefaultResult(i) ==
  IF i = "none"
  THEN Exc("DefaultCredentialsError", "Your default credentials were not found.")
  ELSE NoExc

\* credentials.refresh(auth_req) as far as the identity decides it
RefreshResult(i) ==
  IF i = "expired"
  THEN Exc("RefreshError", "invalid_grant: Token has been expired or revoked.")
  ELSE NoExc

Statuses == {200, 204, 304, 403, 500}

Body(syntax, layout, value) == [syntax |-> syntax, layout |-> layout, value |-> value]

Bodies ==
  { Body("json", "compact", "error: model not found"),
    Body("json", "indent2", "error: model not found"),
    Body("json", "compact", "choices: Austin"),
    Body("text", "raw", "<html>error page</html>"),
    Body("text", "raw", "") }

PResp(status, body) == [status |-> status, body |-> body]

NoPResponse == PResp(0, Body("none", "none", ""))

PResponses == {PResp(s, b) : s \in Statuses, b \in Bodies}

\* response.raise_for_status(): HTTPError for 4xx and 5xx
RaisesForStatus(status) == 400 <= status /\ status < 600

\* response.json(): the decoded value, or JSONDecodeError
JsonResult(body) ==
  IF body.syntax = "json"
  THEN NoExc
  ELSE Exc("JSONDecodeError", "Expecting value: line 1 column 1 (char 0)")

\* json.dumps(response.json(), indent=2)
Dumps(body) == Body("json", "indent2", body.value)

\* Lines printed by the handler an exception of the try body reaches,
\* up to the point where the handler itself can fail (lines 63-74).
VertexHandlerLines(e) ==
  CASE MatchClause(VertexExcepts, e) = "DefaultCredentialsError"
         -> <<Line("creds_not_found", "", ""), Line("creds_hint", "", "")>>
    [] MatchClause(VertexExcepts, e) = "HTTPError"
         -> <<Line("http_error", ToString(p_response.status), ""),
              Line("error_body_header", "", "")>>
    [] OTHER
         -> <<Line("unexpected", e.msg, "")>>

\* An exception raised in the try body: the matching handler runs.
VertexFails(e, printed) ==
  IF MatchClause(VertexExcepts, e) = Uncaught
  THEN Propagate(e, printed)
  ELSE Handle(e, printed \o VertexHandlerLines(e),
              IF MatchClause(VertexExcepts, e) = "HTTPError"
              THEN "p_handler" ELSE "done")

\* lines 13-21: the constants and the first line
P_Config ==
  /\ prog = "panggil" /\ pc = "p_config"
  /\ Continue(<<Line("calling", MODEL_ID, "")>>, "p_auth")
  /\ UNCHANGED <<prog, fs, idp, config, idx, endpoint_id, token, request,
                 v_response, p_response, inits, sent>>

\* lines 25-26: google.auth.default
P_Auth ==
  /\ prog = "panggil" /\ pc = "p_auth"
  /\ LET e == AuthDefaultResult(idp)
         printed == <<Line("auth_start", "", "")>>
     IN IF e = NoExc
        THEN Continue(printed, "p_refresh")
        ELSE VertexFails(e, printed)
  /\ UNCHANGED <<prog, fs, idp, config, idx, endpoint_id, token, request,
                 v_response, p_response, inits, sent>>

\* lines 27-30: refresh the credentials and take the token; the refresh
\* fails for a revoked identity and can fail for any on a transport error
P_Refresh ==
  /\ prog = "panggil" /\ pc = "p_refresh"
  /\ \/ /\ RefreshResult(idp) = NoExc
        /\ token' = "ya29.token"
        /\ Continue(<<Line("token_ok", "", "")>>, "p_build")
     \/ /\ RefreshResult(idp) # NoExc
        /\ VertexFails(RefreshResult(idp), <<>>)
        /\ token' = token
     \/ /\ VertexFails(Exc("TransportError", "Failed to establish a new connection"), <<>>)
        /\ token' = token
  /\ UNCHANGED <<prog, fs, idp, config, idx, endpoint_id, request,
                 v_response, p_response, inits, sent>>

\* lines 34-50: url, headers, payload and the two progress lines
P_Build ==
  /\ prog = "panggil" /\ pc = "p_build"
  /\ request' = Req(url, token, PROMPT)
  /\ Continue(<<Line("sending_to", url, ""), Line("with_prompt", PROMPT, "")>>, "p_post")
  /\ UNCHANGED <<prog, fs, idp, config, idx, endpoint_id, token,
                 v_response, p_response, inits, sent>>

\* line 53: response = requests.post(url, headers=headers, json=data)
P_Post ==
  /\ prog = "panggil" /\ pc = "p_post"
  /\ sent' = sent + 1
  /\ \/ \E r \in PResponses :
          /\ p_response' = r
          /\ Continue(<<>>, "p_check")
     \/ /\ VertexFails(Exc("ConnectionError", "Max retries exceeded with url"), <<>>)
        /\ p_response' = p_response
  /\ UNCHANGED <<prog, fs, idp, config, idx, endpoint_id, token, request,
                 v_response, inits>>

\* line 56: response.raise_for_status(); on HTTPError the handler starts
\* (lines 66-68)
P_RaiseForStatus ==
  /\ prog = "panggil" /\ pc = "p_check"
  /\ IF RaisesForStatus(p_response.status)
     THEN VertexFails(Exc("HTTPError", "Client/Server Error for url"), <<>>)
     ELSE Continue(<<>>, "p_decode")
  /\ UNCHANGED <<prog, fs, idp, config, idx, endpoint_id, token, request,
                 v_response, p_response, inits, sent>>

\* variant: the handler submits the request once more
P_HttpErrorBody_Retry ==
  /\ prog = "panggil" /\ pc = "p_handler"
  /\ IF sent < 2
     THEN Continue(<<>>, "p_post")
     ELSE Continue(<<Line("access_hint", "", "")>>, "done")
  /\ UNCHANGED <<prog, fs, idp, config, idx, endpoint_id, token, request,
                 v_response, p_response, inits, sent>>

\* lines 70-72: the rest of the HTTPError handler; e.response.json() is
\* evaluated inside the handler, where no except clause applies
P_HttpErrorBody ==
  /\ prog = "panggil" /\ pc = "p_handler"
  /\ LET e == JsonResult(p_response.body)
     IN IF e = NoExc
        THEN Continue(<<Line("error_body", Dumps(p_response.body), ""),
                        Line("access_hint", "", "")>>, "done")
        ELSE Propagate(e, <<>>)
  /\ UNCHANGED <<prog, fs, idp, config, idx, endpoint_id, token, request,
                 v_response, p_response, inits, sent>>

\* lines 59-61: print the decoded response and the success line
P_Decode ==
  /\ prog = "panggil" /\ pc = "p_decode"
  /\ LET e == JsonResult(p_response.body)
         printed == <<Line("response_header", "", "")>>
     IN IF e = NoExc
        THEN Continue(printed \o <<Line("response_body", Dumps(p_response.body), ""),
                                   Line("success", "", "")>>, "done")
        ELSE VertexFails(e, printed)
  /\ UNCHANGED <<prog, fs, idp, config, idx, endpoint_id, token, request,
                 v_response, p_response, inits, sent>>

(* --------------------------- specification ----------------------------- *)
Init ==
  /\ prog \in {"verify", "panggil"}
  /\ IF prog = "verify"
     THEN /\ pc = "v_open"
          /\ fs \in FileStates
          /\ idp = "unused"
     ELSE /\ pc = "p_config"
          /\ fs = NoFile
          /\ idp \in IdpStates
  /\ config = NoConfig
  /\ idx = 0
  /\ endpoint_id = Absent
  /\ token = Absent
  /\ request = NoRequest
  /\ v_response = NoVResponse
  /\ p_response = NoPResponse
  /\ out = <<>>
  /\ caught = NoExc
  /\ raised = NoExc
  /\ inits = 0
  /\ sent = 0

Next ==
  \/ V_Open \/ V_Parse \/ V_CheckEmpty \/ V_List \/ V_AliasLookup
  \/ V_EndpointLookup \/ V_Init \/ V_Model \/ V_Generate \/ V_ReadText
  \/ P_Config \/ P_Auth \/ P_Refresh \/ P_Build \/ P_Post
  \/ P_RaiseForStatus \/ P_HttpErrorBody \/ P_Decode

Spec == Init /\ [][Next]_vars

(* ------------------------------ properties ----------------------------- *)
Done == pc = "done"

Escaped == raised # NoExc

ConfigFailureTags == {"config_empty", "config_not_found", "config_read_error"}

ProbeFailureTags == {"live_failed", "creds_not_found", "http_error", "unexpected"}

FailureTags == ConfigFailureTags \cup ProbeFailureTags

Succeeded == "success" \in Tags(out)

Failed == Tags(out) \cap ProbeFailureTags # {}

\* the loader produced a config: the listing ran to its end
Loaded == prog = "verify" /\ "separator" \in Tags(out)

\* C1: no exception ever propagates out of verify_model_usage or
\* panggil_model_vertex; every failure ends in a printed diagnostic.
C1_NoExceptionEscapes == ~Escaped

\* C2: when the loaded config lacks the probed alias, no connection is
\* initialised, no generate_content call is made, nothing is raised and the
\* run ends with the skip message; a run that initialises a connection or
\* sends a prompt has the probed alias among the keys of its config.
C2_AbsentAliasSkips ==
  prog = "verify" =>
    /\ (fs.state = "file" /\ model_to_test \notin Keys(fs.doc))
          => (inits = 0 /\ sent = 0 /\ ~Escaped)
    /\ (Loaded /\ model_to_test \notin Keys(config) /\ Done)
          => (Count(out, "skip") = 1 /\ Tags(out) \cap FailureTags = {})
    /\ (inits > 0 \/ sent > 0) => model_to_test \in Keys(config)

C2_Witness ==
  /\ prog = "verify" /\ Done /\ Loaded
  /\ model_to_test \notin Keys(config)
  /\ "skip" \in Tags(out)

\* the three malformed shapes the claim names
Malformed(doc) ==
  \/ doc.kind = "syntaxerror"
  \/ /\ doc.kind = "map"
     /\ HasKey(doc, model_to_test)
     /\ \/ Lookup(doc, model_to_test).kind # "map"
        \/ Lookup(doc, model_to_test).endpoint_id = Absent

\* C3: a config that is malformed (invalid syntax, or a probed-alias entry
\* that is not a mapping or has no endpoint_id) ends with the read/parse
\* error diagnostic, and no probe is attempted.
C3_MalformedIsReported ==
  (prog = "verify" /\ fs.state = "file" /\ Malformed(fs.doc) /\ Done)
    => /\ "config_read_error" \in Tags(out)
       /\ ~Escaped
       /\ inits = 0 /\ sent = 0

\* C4: a response whose status is not 2xx ends the run with the HTTP-error
\* diagnostic carrying that status and the server's body, without the
\* success line and without an exception leaving the function.
C4_NonOkIsHttpError ==
  (prog = "panggil" /\ Done /\ p_response # NoPResponse
     /\ ~(200 <= p_response.status /\ p_response.status < 300))
    => /\ \E i \in 1..Len(out) :
            out[i].tag = "http_error" /\ out[i].a = ToString(p_response.status)
       /\ \E i \in 1..Len(out) :
            out[i].tag = "error_body" /\ out[i].a.value = p_response.body.value
       /\ ~Succeeded
       /\ ~Escaped

\* C5: without default credentials the run reports CredentialsNotFound and
\* neither the HTTP-error nor the unexpected-error outcome, never issues
\* the POST, and returns normally.
C5_NoCredentials ==
  (prog = "panggil" /\ idp = "none")
    => /\ sent = 0
       /\ ~Escaped
       /\ Tags(out) \cap {"http_error", "unexpected", "success"} = {}
       /\ Done => Count(out, "creds_not_found") = 1

C5_Witness ==
  /\ prog = "panggil" /\ idp = "none" /\ Done
  /\ "creds_not_found" \in Tags(out)

\* position of a run in Idle(0), AuthResolving(1), RequestBuilding(2),
\* InFlight(3), finished(4)
Rank(p) ==
  CASE p \in {"v_init", "p_auth", "p_refresh"}          -> 1
    [] p \in {"v_model", "v_generate", "p_build", "p_post"} -> 2
    [] p \in {"v_read", "p_check", "p_decode"}          -> 3
    [] p \in {"p_handler", "done"}                      -> 4
    [] OTHER                                            -> 0

AuthResolved == Tags(out) \cap {"init_ok", "token_ok"} # {}

RequestBuilt == Tags(out) \cap {"prompt", "with_prompt"} # {}

C6_Step ==
  /\ Rank(pc') \in {Rank(pc), Rank(pc) + 1, 4}
  /\ sent' <= 1
  /\ sent' # sent => (Rank(pc) = 2 /\ Rank(pc') >= 3 /\ AuthResolved /\ RequestBuilt)
  /\ Failed => (Failed' /\ sent' = sent /\ Rank(pc') = 4)
  /\ ~(Succeeded' /\ Failed')

\* C6: a run only moves forward through Idle, AuthResolving,
\* RequestBuilding, InFlight to its end; the request is submitted at most
\* once and only after auth resolution and request building; after a
\* failure no request is submitted and success is never reported.
C6_ForwardOnly == [][C6_Step]_vars

C6_Witness ==
  /\ Failed /\ sent = 1 /\ pc = "p_handler"

\* C7: a config file that parses to an empty or null structure ends with
\* the 'empty or could not be read' message only: no not-found or
\* parse-error message, no model listed, no connection, no prompt.
C7_EmptyConfig ==
  (prog = "verify" /\ fs.state = "file"
     /\ fs.doc.kind # "syntaxerror" /\ ~fs.doc.truthy)
    => /\ Tags(out) \cap {"config_not_found", "config_read_error",
                          "models_header", "model", "skip"} = {}
       /\ inits = 0 /\ sent = 0 /\ ~Escaped
       /\ Done => Count(out, "config_empty") = 1

C7_Witness ==
  /\ prog = "verify" /\ Done
  /\ config.kind = "map" /\ config.entries = <<>>
  /\ "config_empty" \in Tags(out)

\* C8: when the config path does not resolve to a file, the run ends with
\* the not-found diagnostic, never the generic read/parse-error one, and
\* no probe is attempted.
C8_MissingPathIsNotFound ==
  (prog = "verify" /\ fs.state \in {"missing", "notdir", "isdir"} /\ Done)
    => /\ "config_not_found" \in Tags(out)
       /\ "config_read_error" \notin Tags(out)
       /\ inits = 0 /\ sent = 0

LiveErrors == InitErrors \cup ModelErrors \cup GenerateErrors \cup {TextError}

\* C9: a failure at any step of the live test (init, model access,
\* generate_content, reading the text) ends the run with one and the same
\* FAILED line followed by the hint, whose detail is the message of the
\* exception raised, and nothing leaves the function.
C9_SingleFailedOutcome ==
  (prog = "verify" /\ "live_header" \in Tags(out))
    => /\ ~Escaped
       /\ Tags(out) \cap (FailureTags \ {"live_failed"}) = {}
       /\ caught # NoExc =>
            /\ Done
            /\ caught \in LiveErrors
            /\ Count(out, "live_failed") = 1
            /\ SubSeq(out, Len(out) - 1, Len(out))
                 = <<Line("live_failed", caught.msg, ""), Line("live_hint", "", "")>>
            /\ ~Succeeded
       /\ (Done /\ caught = NoExc) => (Succeeded /\ "live_failed" \notin Tags(out))

C9_Witness ==
  /\ prog = "verify" /\ Done
  /\ caught = TextError
  /\ "response_header" \in Tags(out)
  /\ "live_failed" \in Tags(out)

\* C10: the success line is printed at most once and never together with a
\* failure or error line; a run that prints it submitted its request
\* exactly once and decoded the response without an exception.
C10_SuccessExclusive ==
  /\ Count(out, "success") <= 1
  /\ Succeeded =>
       /\ Tags(out) \cap FailureTags = {}
       /\ caught = NoExc /\ ~Escaped
       /\ sent = 1
       /\ out[Len(out)].tag = "success"
       /\ prog = "verify" =>
            /\ v_response.kind = "text"
            /\ \E i \in 1..Len(out) :
                 out[i].tag = "response_text" /\ out[i].a = Strip(v_response.text)
       /\ prog = "panggil" =>
            /\ JsonResult(p_response.body) = NoExc
            /\ \E i \in 1..Len(out) :
                 out[i].tag = "response_body" /\ out[i].a = Dumps(p_response.body)

C10_Witness ==
  /\ Succeeded /\ Done /\ sent = 1
  /\ prog = "panggil"
  /\ "token_ok" \in Tags(out)

====
